---- MODULE Spec2Model ----
\* kysely-otel: OpenTelemetry spans around Kysely's TransactionBuilder.execute
\* and DefaultQueryExecutor.executeQuery (src/mod.ts).
\*
\* JavaScript runs each synchronous stretch of code to completion, so one action
\* of this model is one such stretch: a call entering the installed wrappers down
\* to the original operation (everything up to the first await), the original's
\* promise settling, and the continuation of one wrapper after its await
\* (try/catch/finally up to the settling of the wrapper's own promise).
EXTENDS Integers, Sequences, FiniteSets, TLC

VARIABLES
  txExecute,      \* TransactionBuilder.prototype.execute: the tracers of the wrappers around the original, innermost first
  queryExecute,   \* DefaultQueryExecutor.prototype.executeQuery: likewise
  calls,          \* every intercepted call made so far, in call order
  spans,          \* every span the tracers started, in start order
  installs,       \* history: how many times setupInstrumentation has run
  parentOf        \* history: <<q, t>> when query call q was made by the callback of transaction call t

vars == <<txExecute, queryExecute, calls, spans, installs, parentOf>>

\* ---------------------------------------------------------------- bounds

MaxInstalls == 2
MaxCalls == 2
MaxTables == 2

\* ---------------------------------------------------------------- JS values

Absent == [t |-> "absent"]
Str(s) == [t |-> "string", s |-> s]
Num(n) == [t |-> "number", n |-> n]

\* Values the original operation may throw: Error objects with a string code,
\* without a code and with a numeric code, a plain object with a string code, a
\* plain string, and null.
PgError == [tag |-> "Error", code |-> Str("23505"), name |-> "error", message |-> "duplicate key"]
PlainError == [tag |-> "Error", code |-> Absent, name |-> "Error", message |-> "connection lost"]
NumCodeError == [tag |-> "Error", code |-> Num(1062), name |-> "Error", message |-> "dup entry"]
CodeObject == [tag |-> "object", code |-> Str("E_TIMEOUT"), name |-> "", message |-> ""]
PlainString == [tag |-> "string", code |-> Absent, name |-> "", message |-> "boom"]
NullValue == [tag |-> "null", code |-> Absent, name |-> "", message |-> ""]

AllThrown == {PgError, PlainError, NumCodeError, CodeObject, PlainString, NullValue}
SomeThrown == {PgError, PlainString}

\* QueryResult values, each a distinct object (ref) with its rows.
QueryResults ==
  { [ref |-> "res0", rows |-> <<>>],
    [ref |-> "res1", rows |-> <<"row">>],
    [ref |-> "res2", rows |-> <<"row", "row">>] }
SomeQueryResults == { r \in QueryResults : r.ref \in {"res0", "res2"} }

\* What a transaction callback may return.
TxResults == { [ref |-> "txval", rows |-> <<>>] }

Pending == [kind |-> "pending"]
NotInvoked == [kind |-> "notInvoked"]
Return(v) == [kind |-> "return", val |-> v]
Throw(e) == [kind |-> "throw", val |-> e]

\* typeof err
TypeOf(err) ==
  IF err.tag \in {"Error", "object", "null"} THEN "object" ELSE "string"

\* The code test restricted to Error objects.
HasStringCodeErrorOnly(err) ==
  /\ err.tag = "Error"
  /\ err.code # Absent
  /\ err.code.t = "string"

\* typeof err === "object" && err !== null && "code" in err && typeof err.code === "string"
HasStringCode(err) ==
  /\ TypeOf(err) = "object"
  /\ err.tag # "null"
  /\ err.code # Absent
  /\ err.code.t = "string"

\* Error.isError(err)
IsError(err) == err.tag = "Error"

\* String(err)
StringOf(err) ==
  CASE err.tag = "Error" -> err.name \o ": " \o err.message
    [] err.tag = "object" -> "[object Object]"
    [] err.tag = "null" -> "null"
    [] OTHER -> err.message

\* ---------------------------------------------------------------- operation nodes

Some(v) == [t |-> "some", v |-> v]
Bool(b) == [t |-> "boolean", b |-> b]

\* An optional field read in a condition: undefined, "" and false are falsy.
Truthy(v) ==
  /\ v # Absent
  /\ ~(v.t = "string" /\ v.s = "")
  /\ ~(v.t = "boolean" /\ ~v.b)

\* TableNode { table: { schema?, identifier } }
Table(schema, identifier) ==
  [kind |-> "TableNode", schema |-> schema, identifier |-> identifier]
TUsers == Table(Str("public"), "users")
TPosts == Table(Absent, "posts")
TEmpty == Table(Absent, "")
\* Nodes of a from or join list that are not TableNodes.
AliasItem == [kind |-> "AliasNode", schema |-> Absent, identifier |-> "u"]
JoinItem == [kind |-> "JoinNode", schema |-> Absent, identifier |-> "posts"]

FromItems == {TUsers, TPosts, TEmpty, AliasItem}
JoinItems == {JoinItem, TPosts, TUsers}

\* The sequences over S of length at most n.
SeqUpTo(S, n) == UNION { [1..k -> S] : k \in 0..n }

FromLists == SeqUpTo(FromItems, MaxTables)
JoinLists == SeqUpTo(JoinItems, MaxTables)

Node(kind, from, joins, into, table, name, concurrently) ==
  [ kind |-> kind, from |-> from, joins |-> joins, into |-> into,
    table |-> table, name |-> name, concurrently |-> concurrently ]

DDLKinds ==
  { "CreateTableNode", "AlterTableNode", "DropTableNode", "CreateIndexNode",
    "DropIndexNode", "CreateSchemaNode", "DropSchemaNode", "CreateTypeNode",
    "DropTypeNode", "CreateViewNode", "DropViewNode" }
OtherKinds == {"RawNode", "ValuesNode"}

OptJoins == {Absent} \cup { Some(l) : l \in JoinLists }
\* SelectQueryNode { from?: FromNode, joins?: JoinNode[] }
SelectNodes ==
  { Node("SelectQueryNode", f, j, Absent, Absent, Absent, Absent) :
      f \in {Absent} \cup { Some(l) : l \in FromLists }, j \in OptJoins }
\* InsertQueryNode { into?: TableNode }
InsertNodes ==
  { Node("InsertQueryNode", Absent, Absent, i, Absent, Absent, Absent) :
      i \in {Absent, Some(TUsers), Some(TPosts), Some(TEmpty)} }
\* UpdateQueryNode { table?: OperationNode, joins?: JoinNode[] }
UpdateNodes ==
  { Node("UpdateQueryNode", Absent, j, Absent, tb, Absent, Absent) :
      tb \in {Absent, Some(TUsers), Some(TPosts), Some(TEmpty), Some(AliasItem)},
      j \in OptJoins }
\* DeleteQueryNode { from: FromNode, joins?: JoinNode[] }: from is not optional in
\* the library's type, which is why query.from.froms type-checks unguarded.
DeleteNodes ==
  { Node("DeleteQueryNode", Some(l), j, Absent, Absent, Absent, Absent) :
      l \in FromLists, j \in OptJoins }
DDLNodes ==
  { Node(k, Absent, Absent, Absent, tb, nm, Absent) :
      k \in DDLKinds, tb \in {Absent, Some(TUsers)}, nm \in {Absent, Str("idx")} }
MergeNodes ==
  { Node("MergeQueryNode", Absent, Absent, i, Absent, Absent, Absent) :
      i \in {Absent, Some(TUsers)} }
\* RefreshMaterializedViewNode { name, concurrently?: boolean }. The library
\* builds the node with name: SchemableIdentifierNode, an object holding the
\* identifier; the names that are plain strings are the spec's reading of name.
Identifier(name) == [t |-> "object", identifier |-> name]
RefreshNodes ==
  { Node("RefreshMaterializedViewNode", Absent, Absent, Absent, Absent, nm, c) :
      nm \in {Absent, Str("mv_totals"), Str(""), Identifier("mv_totals")},
      c \in {Absent, Bool(TRUE), Bool(FALSE)} }
OtherNodes ==
  { Node(k, Absent, Absent, Absent, Absent, Absent, Absent) : k \in OtherKinds }

AllNodes ==
  SelectNodes \cup InsertNodes \cup UpdateNodes \cup DeleteNodes \cup DDLNodes
    \cup MergeNodes \cup RefreshNodes \cup OtherNodes

\* The nodes of the interleaving specification.
SomeNodes ==
  { Node("SelectQueryNode", Some(<<TUsers>>), Absent, Absent, Absent, Absent, Absent),
    Node("RawNode", Absent, Absent, Absent, Absent, Absent, Absent) }

\* CompiledQuery { sql, query }
SqlOf(node) ==
  CASE node.kind = "SelectQueryNode" -> "select * from t"
    [] node.kind = "RawNode" -> "vacuum"
    [] OTHER -> "sql of " \o node.kind
Compiled(node) == [sql |-> SqlOf(node), query |-> node]

\* ---------------------------------------------------------------- summarizer

\* array.join(", ")
RECURSIVE JoinComma(_)
JoinComma(names) ==
  IF Len(names) = 0 THEN ""
  ELSE IF Len(names) = 1 THEN names[1]
  ELSE names[1] \o ", " \o JoinComma(Tail(names))

\* array.filter(Boolean) on strings: the empty string is dropped
RECURSIVE FilterBoolean(_)
FilterBoolean(names) ==
  IF Len(names) = 0 THEN <<>>
  ELSE IF names[1] = "" THEN FilterBoolean(Tail(names))
  ELSE <<names[1]>> \o FilterBoolean(Tail(names))

\* TableNode.is(node)
TableNodeIs(node) == node.kind = "TableNode"

\* getTableName without the schema.
getTableNameNoSchema(node) == node.identifier

\* `${schema}.${table}` when the table has a schema, else the table
getTableName(node) ==
  IF node.schema # Absent
    THEN node.schema.s \o "." \o node.identifier
    ELSE node.identifier

getTableNames(froms) ==
  FilterBoolean([i \in 1..Len(froms) |->
                   IF TableNodeIs(froms[i]) THEN getTableName(froms[i]) ELSE ""])

\* ` JOIN ${getTableNames(query.joins).join(", ")}` when query.joins is a non-empty array
JoinSuffix(query) ==
  IF query.joins # Absent /\ Len(query.joins.v) > 0
    THEN " JOIN " \o JoinComma(getTableNames(query.joins.v))
    ELSE ""

Summary(s) == [threw |-> FALSE, summary |-> s]
\* Reading a property of undefined throws a TypeError.
TypeError == [threw |-> TRUE, summary |-> ""]
TypeErrorValue ==
  [tag |-> "Error", code |-> Absent, name |-> "TypeError",
   message |-> "Cannot read properties of undefined"]

\* The select case reading query.from.froms without the guard on query.from.
SelectSummaryUnguarded(query) ==
  IF query.from = Absent
    THEN TypeError
    ELSE Summary((IF Len(query.from.v) > 0
                    THEN "SELECT FROM " \o JoinComma(getTableNames(query.from.v))
                    ELSE "SELECT") \o JoinSuffix(query))

\* case "SelectQueryNode"
SelectSummary(query) ==
  Summary((IF query.from # Absent /\ Len(query.from.v) > 0
             THEN "SELECT FROM " \o JoinComma(getTableNames(query.from.v))
             ELSE "SELECT") \o JoinSuffix(query))

\* case "InsertQueryNode"
InsertSummary(query) ==
  Summary(IF query.into # Absent
            THEN "INSERT INTO " \o getTableName(query.into.v)
            ELSE "INSERT")

\* The update case without the TableNode.is test on the target.
UpdateSummaryAnyTarget(query) ==
  Summary((IF query.table # Absent
             THEN "UPDATE " \o getTableName(query.table.v)
             ELSE "UPDATE") \o JoinSuffix(query))

\* case "UpdateQueryNode"
UpdateSummary(query) ==
  Summary((IF query.table # Absent /\ TableNodeIs(query.table.v)
             THEN "UPDATE " \o getTableName(query.table.v)
             ELSE "UPDATE") \o JoinSuffix(query))

\* case "DeleteQueryNode": query.from is read unguarded
DeleteSummary(query) ==
  IF query.from = Absent
    THEN TypeError
    ELSE Summary("DELETE FROM " \o JoinComma(getTableNames(query.from.v))
                   \o JoinSuffix(query))

\* `${value}` in a template literal: String(value); an object without a
\* toString of its own gives "[object Object]".
Template(v) ==
  CASE v.t = "string" -> v.s
    [] v.t = "boolean" -> (IF v.b THEN "true" ELSE "false")
    [] OTHER -> "[object Object]"

\* case "RefreshMaterializedViewNode"
RefreshSummary(query) ==
  Summary("REFRESH MATERIALIZED VIEW"
            \o (IF Truthy(query.name) THEN " " \o Template(query.name) ELSE "")
            \o (IF Truthy(query.concurrently) THEN " CONCURRENTLY" ELSE ""))

\* summarizeQuery with the case label of DropViewNode missing.
summarizeQueryMissingLabel(compiled) ==
  LET query == compiled.query IN
  CASE query.kind = "SelectQueryNode" -> SelectSummary(query)
    [] query.kind = "InsertQueryNode" -> InsertSummary(query)
    [] query.kind = "UpdateQueryNode" -> UpdateSummary(query)
    [] query.kind = "DeleteQueryNode" -> DeleteSummary(query)
    [] query.kind \in DDLKinds \ {"DropViewNode"} -> Summary("DDL Operation")
    [] query.kind = "MergeQueryNode" -> Summary("MERGE")
    [] query.kind = "RefreshMaterializedViewNode" -> RefreshSummary(query)
    [] OTHER -> Summary("RAW SQL")

summarizeQuery(compiled) ==
  LET query == compiled.query IN
  CASE query.kind = "SelectQueryNode" -> SelectSummary(query)
    [] query.kind = "InsertQueryNode" -> InsertSummary(query)
    [] query.kind = "UpdateQueryNode" -> UpdateSummary(query)
    [] query.kind = "DeleteQueryNode" -> DeleteSummary(query)
    [] query.kind \in DDLKinds -> Summary("DDL Operation")
    [] query.kind = "MergeQueryNode" -> Summary("MERGE")
    [] query.kind = "RefreshMaterializedViewNode" -> RefreshSummary(query)
    [] OTHER -> Summary("RAW SQL")

\* ---------------------------------------------------------------- spans

AttrKeys ==
  {"db.system.name", "db.query.text", "db.response.returned_rows", "db.response.status_code"}

UNSET == [code |-> "UNSET", message |-> ""]

\* A span never written to after end(): an ended span ignores the write, and the
\* log keeps the call all the same.
Write(span, op, new) ==
  IF span.ended > 0
    THEN [span EXCEPT !.log = Append(@, op)]
    ELSE [new EXCEPT !.log = Append(@, op)]

\* tracer.startActiveSpan(name, { kind, attributes }, fn): the span handed to fn
StartActiveSpan(tracer, name, kind, attributes, call, level) ==
  [ tracer |-> tracer, name |-> name, kind |-> kind,
    attrs |-> [k \in AttrKeys |-> IF k \in DOMAIN attributes THEN Str(attributes[k]) ELSE Absent],
    status |-> UNSET, exceptions |-> <<>>, ended |-> 0,
    log |-> <<"start">>, call |-> call, level |-> level ]

\* span.setAttribute(key, value)
SetAttribute(span, key, value) ==
  Write(span, "setAttribute", [span EXCEPT !.attrs[key] = value])

\* span.recordException(err)
RecordException(span, err) ==
  Write(span, "recordException", [span EXCEPT !.exceptions = Append(@, err)])

\* span.setStatus({ code, message })
SetStatus(span, code, message) ==
  Write(span, "setStatus", [span EXCEPT !.status = [code |-> code, message |-> message]])

\* span.end()
End(span) ==
  [span EXCEPT !.ended = @ + 1, !.log = Append(@, "end")]

\* ---------------------------------------------------------------- wrappers

\* The transaction wrapper with the failure swallowed: the catch block does not
\* re-throw.
TransactionSpanBodySwallow(span, settled) ==
  IF settled.kind = "return"
    THEN [span |-> End(span), out |-> Return(settled.val)]
    ELSE LET err == settled.val
             s1 == IF HasStringCode(err)
                     THEN SetAttribute(span, "db.response.status_code", err.code)
                     ELSE span
             s2 == IF IsError(err) THEN RecordException(s1, err) ELSE s1
             s3 == SetStatus(s2, "ERROR", StringOf(err))
         IN [span |-> End(s3), out |-> Return([ref |-> "undefined", rows |-> <<>>])]

\* The query wrapper with span.end() at the end of the try block instead of in
\* finally.
QuerySpanBodyEndInTry(span, settled) ==
  IF settled.kind = "return"
    THEN LET res == settled.val
             s1 == SetAttribute(span, "db.response.returned_rows", Num(Len(res.rows)))
         IN [span |-> End(s1), out |-> Return(res)]
    ELSE LET err == settled.val
             s1 == IF HasStringCode(err)
                     THEN SetAttribute(span, "db.response.status_code", err.code)
                     ELSE span
             s2 == IF IsError(err) THEN RecordException(s1, err) ELSE s1
             s3 == SetStatus(s2, "ERROR", StringOf(err))
         IN [span |-> s3, out |-> Throw(err)]

\* The query wrapper with span.end() before the row count is set.
QuerySpanBodyEndFirst(span, settled) ==
  IF settled.kind = "return"
    THEN LET res == settled.val
             s1 == End(span)
         IN [span |-> SetAttribute(s1, "db.response.returned_rows", Num(Len(res.rows))),
             out |-> Return(res)]
    ELSE LET err == settled.val
             s1 == IF HasStringCode(err)
                     THEN SetAttribute(span, "db.response.status_code", err.code)
                     ELSE span
             s2 == IF IsError(err) THEN RecordException(s1, err) ELSE s1
             s3 == SetStatus(s2, "ERROR", StringOf(err))
         IN [span |-> End(s3), out |-> Throw(err)]

\* The transaction wrapper recording every thrown value as an exception.
TransactionSpanBodyAlwaysRecord(span, settled) ==
  IF settled.kind = "return"
    THEN [span |-> End(span), out |-> Return(settled.val)]
    ELSE LET err == settled.val
             s1 == IF HasStringCode(err)
                     THEN SetAttribute(span, "db.response.status_code", err.code)
                     ELSE span
             s2 == RecordException(s1, err)
             s3 == SetStatus(s2, "ERROR", StringOf(err))
         IN [span |-> End(s3), out |-> Throw(err)]

\* The transaction wrapper with span.end() in the catch block before the status
\* is set.
TransactionSpanBodyEndEarly(span, settled) ==
  IF settled.kind = "return"
    THEN [span |-> End(span), out |-> Return(settled.val)]
    ELSE LET err == settled.val
             s1 == IF HasStringCode(err)
                     THEN SetAttribute(span, "db.response.status_code", err.code)
                     ELSE span
             s2 == IF IsError(err) THEN RecordException(s1, err) ELSE s1
             s3 == SetStatus(End(s2), "ERROR", StringOf(err))
         IN [span |-> s3, out |-> Throw(err)]

\* The query wrapper with setStatus moved to the finally block: the status is
\* written on the success path as well.
QuerySpanBodyStatusInFinally(span, settled) ==
  IF settled.kind = "return"
    THEN LET res == settled.val
             s1 == SetAttribute(span, "db.response.returned_rows", Num(Len(res.rows)))
             s2 == SetStatus(s1, "ERROR", "")
         IN [span |-> End(s2), out |-> Return(res)]
    ELSE LET err == settled.val
             s1 == IF HasStringCode(err)
                     THEN SetAttribute(span, "db.response.status_code", err.code)
                     ELSE span
             s2 == IF IsError(err) THEN RecordException(s1, err) ELSE s1
             s3 == SetStatus(s2, "ERROR", StringOf(err))
         IN [span |-> End(s3), out |-> Throw(err)]

\* The transaction wrapper after its await: try / catch / finally.
TransactionSpanBody(span, settled) ==
  IF settled.kind = "return"
    THEN [span |-> End(span), out |-> Return(settled.val)]
    ELSE LET err == settled.val
             s1 == IF HasStringCode(err)
                     THEN SetAttribute(span, "db.response.status_code", err.code)
                     ELSE span
             s2 == IF IsError(err) THEN RecordException(s1, err) ELSE s1
             s3 == SetStatus(s2, "ERROR", StringOf(err))
         IN [span |-> End(s3), out |-> Throw(err)]

\* The query wrapper after its await: try / catch / finally.
QuerySpanBody(span, settled) ==
  IF settled.kind = "return"
    THEN LET res == settled.val
             s1 == SetAttribute(span, "db.response.returned_rows", Num(Len(res.rows)))
         IN [span |-> End(s1), out |-> Return(res)]
    ELSE LET err == settled.val
             s1 == IF HasStringCode(err)
                     THEN SetAttribute(span, "db.response.status_code", err.code)
                     ELSE span
             s2 == IF IsError(err) THEN RecordException(s1, err) ELSE s1
             s3 == SetStatus(s2, "ERROR", StringOf(err))
         IN [span |-> End(s3), out |-> Throw(err)]

\* A wrapper writing to the span started last instead of the span of its closure.
SpanOfFrameLatest(call, k) == Len(spans)

\* The span a wrapper's continuation writes to: the span parameter of its closure.
SpanOfFrame(call, k) == call.spanOf[k]

\* transactionBuilderExecute.call(this, cb): what a transaction wrapper invokes
TxWrapperCall(inv) == <<[this |-> inv.this, arg |-> inv.arg, id |-> inv.id]>>

\* The query wrapper invoking the captured function without a receiver.
QueryWrapperCallNoReceiver(inv) == <<[this |-> "undefined", arg |-> inv.arg, id |-> inv.id]>>

\* defaultQueryExecutorExecuteQuery.call(this, query, id): what a query wrapper invokes
QueryWrapperCall(inv) == <<[this |-> inv.this, arg |-> inv.arg, id |-> inv.id]>>

\* The invocations of the original operation that reach it through d nested
\* wrappers, each wrapper invoking the function it captured at install time.
RECURSIVE Through(_, _, _)
Through(op, invs, d) ==
  IF d = 0 THEN invs
  ELSE LET inner == [i \in 1..Len(invs) |->
                       IF op = "execute" THEN TxWrapperCall(invs[i])
                                         ELSE QueryWrapperCall(invs[i])]
           Flat[i \in 0..Len(invs)] ==
             IF i = 0 THEN <<>> ELSE Flat[i - 1] \o inner[i]
       IN Through(op, Flat[Len(invs)], d - 1)

\* The span of the transaction wrapper at `level`.
TxStartSpan(tracer, call, level) ==
  StartActiveSpan(tracer, "TRANSACTION", "INTERNAL",
                  ("db.system.name" :> "postgres"), call, level)

\* The query wrapper starting its span without the SQL text.
QueryStartSpanNoText(tracer, query, call, level) ==
  [ tracer |-> tracer, name |-> summarizeQuery(query).summary, kind |-> "INTERNAL",
    attrs |-> [k \in AttrKeys |-> IF k = "db.system.name" THEN Str("postgres") ELSE Absent],
    status |-> UNSET, exceptions |-> <<>>, ended |-> 0,
    log |-> <<"start">>, call |-> call, level |-> level ]

\* The span of the query wrapper at `level`.
QueryStartSpan(tracer, query, call, level) ==
  StartActiveSpan(tracer, summarizeQuery(query).summary, "INTERNAL",
                  ("db.system.name" :> "postgres") @@ ("db.query.text" :> query.sql),
                  call, level)

\* ---------------------------------------------------------------- inputs

Tracers == {"kysely"}
Builders == {"builder"}
Executors == {"executor"}
Callbacks == {"cb"}
QueryIds == {"queryId"}
NoId == "none"

\* ---------------------------------------------------------------- actions

Init ==
  /\ txExecute = <<>>
  /\ queryExecute = <<>>
  /\ calls = <<>>
  /\ spans = <<>>
  /\ installs = 0
  /\ parentOf = {}

\* setupInstrumentation guarded against a second install: the prototype methods
\* are wrapped only if they are not wrapped yet.
setupInstrumentationOnce(tracer) ==
  /\ installs < MaxInstalls
  /\ installs' = installs + 1
  /\ txExecute' = (IF Len(txExecute) = 0 THEN Append(txExecute, tracer) ELSE txExecute)
  /\ queryExecute' = (IF Len(queryExecute) = 0 THEN Append(queryExecute, tracer) ELSE queryExecute)
  /\ UNCHANGED <<calls, spans>>

\* setupInstrumentation(tracer): both prototype methods are replaced by a wrapper
\* that captured the method installed before.
setupInstrumentation(tracer) ==
  /\ installs < MaxInstalls
  /\ installs' = installs + 1
  /\ txExecute' = Append(txExecute, tracer)
  /\ queryExecute' = Append(queryExecute, tracer)
  /\ UNCHANGED <<calls, spans>>

NewCall(op, this, arg, id, chain, first) ==
  [ op |-> op, this |-> this, arg |-> arg, id |-> id, chain |-> chain,
    spanOf |-> [k \in 1..Len(chain) |-> first + Len(chain) - k],
    invoked |-> Through(op, <<[this |-> this, arg |-> arg, id |-> id]>>, Len(chain)),
    orig |-> Pending, out |-> Pending, level |-> 0 ]

\* builder.execute(cb) on the current prototype: the wrappers run outermost
\* first, each starting its span and invoking the function below it, down to the
\* original execute, which suspends.
execute(this, cb) ==
  /\ Len(calls) < MaxCalls
  /\ LET d == Len(txExecute)
         c == Len(calls) + 1
     IN /\ spans' = spans \o [i \in 1..d |-> TxStartSpan(txExecute[d + 1 - i], c, d + 1 - i)]
        /\ calls' = Append(calls, NewCall("execute", this, cb, NoId, txExecute, Len(spans) + 1))
  /\ UNCHANGED <<txExecute, queryExecute, installs>>

\* executor.executeQuery(query, id) on the current prototype. summarizeQuery runs
\* before the span is started, outside any try: if it throws, the call throws
\* with no span started and the original not invoked.
executeQuery(this, query, id) ==
  /\ Len(calls) < MaxCalls
  /\ LET d == Len(queryExecute)
         c == Len(calls) + 1
     IN IF d > 0 /\ summarizeQuery(query).threw
          THEN /\ calls' = Append(calls,
                     [NewCall("executeQuery", this, query, id, queryExecute, Len(spans) + 1)
                        EXCEPT !.spanOf = <<>>, !.invoked = <<>>, !.orig = NotInvoked,
                               !.out = Throw(TypeErrorValue), !.level = d])
               /\ UNCHANGED spans
          ELSE /\ spans' = spans \o [i \in 1..d |->
                                       QueryStartSpan(queryExecute[d + 1 - i], query, c, d + 1 - i)]
               /\ calls' = Append(calls,
                     NewCall("executeQuery", this, query, id, queryExecute, Len(spans) + 1))
  /\ UNCHANGED <<txExecute, queryExecute, installs>>

\* The original operation of call c completes: its promise settles with outcome o.
OriginalSettles(c, o) ==
  /\ calls[c].orig = Pending
  /\ calls' = [calls EXCEPT ![c].orig = o, ![c].out = o]
  /\ UNCHANGED <<txExecute, queryExecute, spans, installs>>

\* A wrapper that returns the promise of the original without awaiting it: its
\* finally block runs while the original is still suspended.
ResumeNoAwait(c) ==
  /\ calls[c].level < Len(calls[c].chain)
  /\ LET k == calls[c].level + 1
         sid == SpanOfFrame(calls[c], k)
         r == IF calls[c].orig = Pending
                THEN [span |-> End(spans[sid]), out |-> Pending]
                ELSE IF calls[c].op = "execute"
                  THEN TransactionSpanBody(spans[sid], calls[c].out)
                  ELSE QuerySpanBody(spans[sid], calls[c].out)
     IN /\ spans' = [spans EXCEPT ![sid] = r.span]
        /\ calls' = [calls EXCEPT ![c].out = r.out, ![c].level = k]
  /\ UNCHANGED <<txExecute, queryExecute, installs>>

\* The innermost wrapper of call c that still awaits resumes: the promise it
\* awaits has settled, its try/catch/finally runs and its own promise settles.
Resume(c) ==
  /\ calls[c].orig # Pending
  /\ calls[c].level < Len(calls[c].chain)
  /\ LET k == calls[c].level + 1
         sid == SpanOfFrame(calls[c], k)
         r == IF calls[c].op = "execute"
                THEN TransactionSpanBody(spans[sid], calls[c].out)
                ELSE QuerySpanBody(spans[sid], calls[c].out)
     IN /\ spans' = [spans EXCEPT ![sid] = r.span]
        /\ calls' = [calls EXCEPT ![c].out = r.out, ![c].level = k]
  /\ UNCHANGED <<txExecute, queryExecute, installs>>

TxOutcomes(thrown) == { Return(v) : v \in TxResults } \cup { Throw(e) : e \in thrown }
QueryOutcomes(results, thrown) == { Return(v) : v \in results } \cup { Throw(e) : e \in thrown }

Install == (\E t \in Tracers : setupInstrumentation(t)) /\ UNCHANGED parentOf
CallExecute == (\E b \in Builders, cb \in Callbacks : execute(b, cb)) /\ UNCHANGED parentOf
CallExecuteQuery(nodes) ==
  /\ \E e \in Executors, n \in nodes, id \in QueryIds : executeQuery(e, Compiled(n), id)
  /\ UNCHANGED parentOf
Settle(results, thrown) ==
  /\ \E c \in 1..Len(calls) :
       \E o \in IF calls[c].op = "execute" THEN TxOutcomes(thrown)
                                           ELSE QueryOutcomes(results, thrown) :
         OriginalSettles(c, o)
  /\ UNCHANGED parentOf
Continue == (\E c \in 1..Len(calls) : Resume(c)) /\ UNCHANGED parentOf

\* Concurrent calls, installs at any time.
Next ==
  \/ Install
  \/ CallExecute
  \/ CallExecuteQuery(SomeNodes)
  \/ Settle(SomeQueryResults, SomeThrown)
  \/ Continue

Spec == Init /\ [][Next]_vars

\* One intercepted call, with every kind of thrown value and every result.
OutcomeNext ==
  \/ Install
  \/ calls = <<>> /\ CallExecute
  \/ calls = <<>> /\ CallExecuteQuery(SomeNodes)
  \/ Settle(QueryResults, AllThrown)
  \/ Continue

OutcomeSpec == Init /\ [][OutcomeNext]_vars

\* One intercepted call under the scheduling the run time guarantees: the
\* continuation of an await runs once the awaited promise has settled (weak
\* fairness of Continue). Weak fairness of Settle is the proviso that the
\* original operation completes.
LiveSpec ==
  /\ Init
  /\ [][OutcomeNext]_vars
  /\ WF_vars(Settle(QueryResults, AllThrown))
  /\ WF_vars(Continue)

\* One query call on any root node: the synchronous part of the query wrapper,
\* from summarizeQuery to the invocation of the original.
SumNext ==
  \/ Install
  \/ calls = <<>> /\ CallExecuteQuery(AllNodes)

SumSpec == Init /\ [][SumNext]_vars

\* ---------------------------------------------------------------- properties

Depth(c) == Len(calls[c].chain)
\* The caller of call c has received the outcome.
Done(c) == calls[c].out # Pending /\ calls[c].level = Depth(c)
SpansOfCall(c) == { s \in 1..Len(spans) : spans[s].call = c }
\* The wrapper that owns span s has run its continuation.
Resumed(s) == calls[spans[s].call].level >= spans[s].level
Count(log, op) == Cardinality({ i \in 1..Len(log) : log[i] = op })
Failed(c) == calls[c].orig.kind = "throw"
Succeeded(c) == calls[c].orig.kind = "return"

\* ---------------------------------------------------------------- transactions with queries

\* The query calls the callback of transaction call t has made.
QueriesOf(t) == { q \in 1..Len(calls) : <<q, t>> \in parentOf }

\* The callback of a running transaction executes a query through the executor
\* of the transaction: the call enters DefaultQueryExecutor.prototype.executeQuery
\* while the original execute of the transaction is suspended.
CallbackQuery ==
  \E t \in 1..Len(calls) :
    /\ calls[t].op = "execute"
    /\ calls[t].orig = Pending
    /\ \E e \in Executors, n \in SomeNodes, id \in QueryIds : executeQuery(e, Compiled(n), id)
    /\ parentOf' = parentOf \cup {<<Len(calls) + 1, t>>}

\* The original executeQuery of a query call completes.
SettleQuery ==
  /\ \E c \in 1..Len(calls) :
       /\ calls[c].op = "executeQuery"
       /\ \E o \in QueryOutcomes(SomeQueryResults, SomeThrown) : OriginalSettles(c, o)
  /\ UNCHANGED parentOf

\* The original execute of transaction call t completes once its callback has:
\* the callback has awaited every query it made, and it returns, throws a value
\* of its own, or lets the failure of one of its queries propagate.
CallbackSettles ==
  /\ \E t \in 1..Len(calls) :
       /\ calls[t].op = "execute"
       /\ \A q \in QueriesOf(t) : Done(q)
       /\ \E o \in TxOutcomes({PlainError})
                     \cup { calls[q].out : q \in { r \in QueriesOf(t) : calls[r].out.kind = "throw" } } :
            OriginalSettles(t, o)
  /\ UNCHANGED parentOf

TxNext ==
  \/ Install
  \/ CallExecute
  \/ CallbackQuery
  \/ SettleQuery
  \/ CallbackSettles
  \/ Continue

TxSpec == Init /\ [][TxNext]_vars

\* C1: after one install, every call of the wrapped transaction execution or of
\* the wrapped query execution starts exactly one span, and that span is ended
\* exactly once, whether the original returns or throws: never more than once,
\* not before the wrapper resumes, and once from then on.
C1_OneSpanEndedOnce ==
  \A c \in 1..Len(calls) :
    Depth(c) = 1 =>
      /\ Cardinality(SpansOfCall(c)) = 1
      /\ \A s \in SpansOfCall(c) :
           /\ Count(spans[s].log, "start") = 1
           /\ spans[s].ended = Count(spans[s].log, "end")
           /\ spans[s].ended = (IF Resumed(s) THEN 1 ELSE 0)
      /\ Done(c) => \A s \in SpansOfCall(c) : spans[s].ended = 1

C1_Witness ==
  \E c, d \in 1..Len(calls) :
    /\ Depth(c) = 1 /\ Depth(d) = 1
    /\ calls[c].op = "execute" /\ calls[d].op = "executeQuery"
    /\ Done(c) /\ Done(d)
    /\ Failed(c) /\ Succeeded(d)
    /\ \A s \in SpansOfCall(c) \cup SpansOfCall(d) : spans[s].ended = 1

\* C2: for every intercepted call the caller receives what the original
\* produced: the same result if it returned, the same thrown value if it threw.
\* From the innermost wrapper outwards, every wrapper settles with the
\* original's outcome.
C2_SameOutcome ==
  \A c \in 1..Len(calls) :
    Depth(c) >= 1 =>
      /\ calls[c].orig # NotInvoked
      /\ calls[c].level >= 1 => calls[c].out = calls[c].orig
      /\ Done(c) => /\ calls[c].out.kind = calls[c].orig.kind
                    /\ calls[c].out.val = calls[c].orig.val

C2_Witness ==
  \E c, d \in 1..Len(calls) :
    /\ Depth(c) >= 1 /\ Depth(d) >= 1
    /\ Done(c) /\ calls[c].out = Throw(PlainString)
    /\ Done(d) /\ calls[d].out.kind = "return" /\ calls[d].out.val.ref = "res2"

\* C3: when the span of a successful wrapped query execution has been ended, its
\* attribute db.response.returned_rows is the number of rows of the result the
\* original executeQuery returned.
C3_ReturnedRows ==
  \A s \in 1..Len(spans) :
    LET c == spans[s].call IN
      (calls[c].op = "executeQuery" /\ Succeeded(c) /\ (spans[s].ended > 0 \/ Resumed(s))) =>
        /\ spans[s].ended > 0
        /\ spans[s].attrs["db.response.returned_rows"] = Num(Len(calls[c].orig.val.rows))

C3_Witness ==
  \E s \in 1..Len(spans) :
    /\ calls[spans[s].call].op = "executeQuery"
    /\ calls[spans[s].call].orig = Return([ref |-> "res2", rows |-> <<"row", "row">>])
    /\ spans[s].ended = 1
    /\ spans[s].attrs["db.response.returned_rows"] = Num(2)

\* The thrown value carries a string-typed code field.
CarriesStringCode(err) ==
  /\ err.tag \in {"Error", "object"}
  /\ err.code \in {Str("23505"), Str("E_TIMEOUT")}

\* C4: when the span of a failing wrapped call (transaction or query) whose
\* thrown value carries a string-typed code c has been ended, the span carries
\* db.response.status_code = c and status ERROR with the stringified thrown value
\* as message, and the caller observes the original thrown value. (The thrown
\* value with code "23505" stringifies to "error: duplicate key".)
C4_StatusCode ==
  \A s \in 1..Len(spans) :
    LET c == spans[s].call
        err == calls[c].orig.val
    IN (Failed(c) /\ CarriesStringCode(err) /\ (spans[s].ended > 0 \/ Resumed(s))) =>
         /\ spans[s].ended = 1
         /\ spans[s].attrs["db.response.status_code"] = err.code
         /\ spans[s].status.code = "ERROR"
         /\ spans[s].status.message =
              (IF err = PgError THEN "error: duplicate key" ELSE "[object Object]")
         /\ Done(c) => calls[c].out = Throw(err)

C4_Witness ==
  \E s \in 1..Len(spans) :
    /\ calls[spans[s].call].op = "executeQuery"
    /\ calls[spans[s].call].orig = Throw(PgError)
    /\ Done(spans[s].call)
    /\ calls[spans[s].call].out = Throw(PgError)
    /\ spans[s].ended = 1
    /\ spans[s].attrs["db.response.status_code"] = Str("23505")
    /\ spans[s].status = [code |-> "ERROR", message |-> "error: duplicate key"]

\* C5: when the wrapper of a failing wrapped call has resumed, the thrown value
\* is recorded as an exception on the span exactly once if it is an Error object
\* and not at all otherwise; either way the span has status ERROR and is ended,
\* and the value is re-thrown. A transaction whose callback throws the plain
\* string "boom" leaves a span ended with status ERROR and message "boom", no
\* recorded exception and no db.response.status_code, and the caller observes
\* that string.
C5_RecordException ==
  \A s \in 1..Len(spans) :
    LET c == spans[s].call
        err == calls[c].orig.val
    IN (Failed(c) /\ Resumed(s)) =>
         /\ spans[s].exceptions = (IF err.tag = "Error" THEN <<err>> ELSE <<>>)
         /\ Count(spans[s].log, "recordException") = (IF err.tag = "Error" THEN 1 ELSE 0)
         /\ spans[s].status.code = "ERROR"
         /\ spans[s].ended = 1
         /\ calls[c].out = Throw(err)
         /\ (calls[c].op = "execute" /\ err = PlainString) =>
              /\ spans[s].status = [code |-> "ERROR", message |-> "boom"]
              /\ spans[s].exceptions = <<>>
              /\ spans[s].attrs["db.response.status_code"] = Absent

C5_Witness ==
  \E c \in 1..Len(calls) :
    /\ calls[c].op = "execute"
    /\ Depth(c) >= 1
    /\ Done(c)
    /\ calls[c].out = Throw(PlainString)
    /\ \A s \in SpansOfCall(c) : spans[s].status.code = "ERROR" /\ spans[s].ended = 1

\* C6: every setAttribute, recordException and setStatus on a span comes before
\* the span's end: in the record of the calls made on a span, end comes last.
C6_NoWriteAfterEnd ==
  \A s \in 1..Len(spans) :
    \A i \in 1..Len(spans[s].log) :
      spans[s].log[i] = "end" => i = Len(spans[s].log)

C6_Witness ==
  \E s, t \in 1..Len(spans) :
    /\ spans[s].log = <<"start", "setAttribute", "recordException", "setStatus", "end">>
    /\ spans[t].log = <<"start", "setAttribute", "end">>

Pristine(s) ==
  /\ spans[s].log = <<"start">>
  /\ spans[s].ended = 0
  /\ spans[s].status = UNSET
  /\ spans[s].exceptions = <<>>
  /\ spans[s].attrs["db.response.returned_rows"] = Absent
  /\ spans[s].attrs["db.response.status_code"] = Absent

\* C7: install is not idempotent. Every install wraps both operations once more;
\* a call made through two wrappers starts two spans, the span of the
\* later-installed wrapper first and the span of the earlier-installed wrapper
\* second; the inner span is ended no later than the outer one, each is ended at
\* most once and both exactly once when the caller has the outcome; on failure
\* both end with the same status, status code attribute and recorded exceptions;
\* and the library's original operation is invoked exactly once.
C7_DoubleWrapping ==
  /\ Len(txExecute) = installs
  /\ Len(queryExecute) = installs
  /\ \A c \in 1..Len(calls) :
       Depth(c) = 2 =>
         LET outer == calls[c].spanOf[2]
             inner == calls[c].spanOf[1]
         IN /\ SpansOfCall(c) = {outer, inner}
            /\ outer < inner
            /\ spans[outer].level = 2 /\ spans[inner].level = 1
            /\ spans[outer].ended <= 1 /\ spans[inner].ended <= 1
            /\ spans[outer].ended = 1 => spans[inner].ended = 1
            /\ Done(c) => spans[outer].ended = 1 /\ spans[inner].ended = 1
            /\ (Failed(c) /\ spans[outer].ended = 1) =>
                 /\ spans[outer].status = spans[inner].status
                 /\ spans[outer].status.code = "ERROR"
                 /\ spans[outer].exceptions = spans[inner].exceptions
                 /\ spans[outer].attrs["db.response.status_code"]
                      = spans[inner].attrs["db.response.status_code"]
            /\ Len(calls[c].invoked) = 1

C7_Witness ==
  /\ installs = 2
  /\ \E c, d \in 1..Len(calls) :
       /\ Depth(c) = 2 /\ Depth(d) = 2
       /\ calls[c].orig = Throw(PgError) /\ Done(c)
       /\ spans[calls[c].spanOf[2]].attrs["db.response.status_code"] = Str("23505")
       /\ spans[calls[c].spanOf[1]].attrs["db.response.status_code"] = Str("23505")
       /\ spans[calls[d].spanOf[1]].ended = 1
       /\ spans[calls[d].spanOf[2]].ended = 0

\* C8: with several intercepted calls in flight and their originals completing
\* in any order, the state of every span is decided by its own call alone: it
\* is as started until its own wrapper resumes, and from then on it is ended and
\* carries the status, the row count, the status code and the recorded
\* exception of its own call's outcome.
C8_SpansIndependent ==
  \A s \in 1..Len(spans) :
    LET c == spans[s].call
        o == calls[c].orig
    IN /\ ~Resumed(s) => Pristine(s)
       /\ Resumed(s) =>
            /\ spans[s].ended = 1
            /\ (spans[s].status.code = "ERROR") <=> Failed(c)
            /\ Failed(c) =>
                 /\ spans[s].status.message =
                      (IF o.val = PlainString THEN "boom" ELSE "error: duplicate key")
                 /\ spans[s].exceptions = (IF o.val = PlainString THEN <<>> ELSE <<o.val>>)
                 /\ spans[s].attrs["db.response.status_code"] =
                      (IF o.val = PlainString THEN Absent ELSE Str("23505"))
            /\ Succeeded(c) =>
                 /\ spans[s].status = UNSET
                 /\ spans[s].exceptions = <<>>
                 /\ spans[s].attrs["db.response.status_code"] = Absent
            /\ spans[s].attrs["db.response.returned_rows"] =
                 (IF Succeeded(c) /\ calls[c].op = "executeQuery"
                    THEN Num(Len(o.val.rows)) ELSE Absent)

\* Two calls in flight at once, the later one failing first.
C8_Witness ==
  \E c, d \in 1..Len(calls) :
    /\ c < d
    /\ Depth(c) >= 1 /\ Depth(d) >= 1
    /\ calls[c].orig = Pending
    /\ Done(d) /\ Failed(d)
    /\ \A s \in SpansOfCall(c) : Pristine(s)
    /\ \A s \in SpansOfCall(d) : spans[s].status.code = "ERROR"

QueryCalls == { c \in 1..Len(calls) : calls[c].op = "executeQuery" /\ Depth(c) >= 1 }
NodeOf(c) == calls[c].arg.query

\* C9: the Query Summarizer returns a name for every root node of every kind,
\* with every combination of its optional sub-structure present or absent, and
\* never throws: every wrapped query execution starts the span of each of its
\* wrappers under a non-empty name and invokes the original once.
C9_SummarizerTotal ==
  \A c \in QueryCalls :
    /\ calls[c].orig # NotInvoked
    /\ calls[c].out.kind # "throw"
    /\ Cardinality(SpansOfCall(c)) = Depth(c)
    /\ \A s \in SpansOfCall(c) : Len(spans[s].name) > 0
    /\ Len(calls[c].invoked) = 1

\* A delete whose source-table list is empty and that has no joins.
C9_Witness ==
  \E c \in QueryCalls :
    /\ NodeOf(c).kind = "DeleteQueryNode"
    /\ NodeOf(c).from = Some(<<>>)
    /\ NodeOf(c).joins = Absent
    /\ \A s \in SpansOfCall(c) : spans[s].name = "DELETE FROM "
    /\ Len(calls[c].invoked) = 1

\* "<schema>.<table>" when a schema is present and "<table>" otherwise
Rendered(t) ==
  IF t.schema = Absent THEN t.identifier ELSE t.schema.s \o "." \o t.identifier

\* The rendered names of the plain table references of list, in order; with
\* dropEmpty, without the names that are the empty string.
TableNamesOf(list, dropEmpty) ==
  LET Keep(n) == n.kind = "TableNode" /\ (dropEmpty => Rendered(n) # "")
      F[i \in 0..Len(list)] ==
        IF i = 0 THEN <<>>
        ELSE IF Keep(list[i]) THEN Append(F[i - 1], Rendered(list[i])) ELSE F[i - 1]
  IN F[Len(list)]

\* The select name of the claim.
SelectName(q, dropEmpty) ==
  (IF q.from # Absent /\ q.from.v # <<>>
     THEN "SELECT FROM " \o JoinComma(TableNamesOf(q.from.v, dropEmpty))
     ELSE "SELECT")
  \o (IF q.joins # Absent /\ q.joins.v # <<>>
        THEN " JOIN " \o JoinComma(TableNamesOf(q.joins.v, dropEmpty))
        ELSE "")

SelectSpans ==
  { s \in 1..Len(spans) :
      calls[spans[s].call].op = "executeQuery"
        /\ NodeOf(spans[s].call).kind = "SelectQueryNode" }

\* C10 as claimed: the name of a select node is "SELECT FROM " and the names of
\* its source tables joined by ", " when source tables are present and "SELECT"
\* otherwise, then " JOIN " and the joined table names when joins are present;
\* the entries dropped from the lists are those that are not plain table
\* references.
C10_AsClaimed ==
  \A s \in SelectSpans :
    spans[s].name = SelectName(NodeOf(spans[s].call), FALSE)

\* C10 amended: as claimed, except that the entries dropped from the lists are
\* those that are not plain table references and the table references whose
\* rendered name is the empty string. Source tables [public.users] without joins
\* give "SELECT FROM public.users"; no source tables and no joins give "SELECT".
C10_SelectName ==
  \A s \in SelectSpans :
    LET q == NodeOf(spans[s].call) IN
      /\ spans[s].name = SelectName(q, TRUE)
      /\ (q.from = Some(<<TUsers>>) /\ q.joins = Absent) =>
           spans[s].name = "SELECT FROM public.users"
      /\ ((q.from = Absent \/ q.from = Some(<<>>)) /\ (q.joins = Absent \/ q.joins = Some(<<>>))) =>
           spans[s].name = "SELECT"

C10_Witness ==
  \E s \in SelectSpans :
    /\ NodeOf(spans[s].call).from = Some(<<AliasItem, TUsers>>)
    /\ NodeOf(spans[s].call).joins = Some(<<TPosts, JoinItem>>)
    /\ spans[s].name = "SELECT FROM public.users JOIN posts"

\* The join list of the claims: " JOIN " and the joined table names when joins
\* are present.
JoinList(q) ==
  IF q.joins # Absent /\ q.joins.v # <<>>
    THEN " JOIN " \o JoinComma(TableNamesOf(q.joins.v, TRUE))
    ELSE ""

SpansOfKind(kind) ==
  { s \in 1..Len(spans) :
      calls[spans[s].call].op = "executeQuery" /\ NodeOf(spans[s].call).kind = kind }

\* C11: the name of an update node is "UPDATE <table>" when the target is a
\* plain table reference and "UPDATE" when the target is absent or is not a
\* plain table reference, with the join list appended in both cases when joins
\* are present; the name of an insert node is "INSERT INTO <table>" when a
\* target table is present and "INSERT" otherwise.
C11_UpdateInsertName ==
  /\ \A s \in SpansOfKind("UpdateQueryNode") :
       LET q == NodeOf(spans[s].call) IN
         /\ (q.table # Absent /\ q.table.v.kind = "TableNode") =>
              spans[s].name = "UPDATE " \o Rendered(q.table.v) \o JoinList(q)
         /\ (q.table = Absent \/ q.table.v.kind # "TableNode") =>
              spans[s].name = "UPDATE" \o JoinList(q)
         /\ (q.table = Some(AliasItem) /\ q.joins = Absent) => spans[s].name = "UPDATE"
         /\ (q.table = Some(TUsers) /\ q.joins = Absent) =>
              spans[s].name = "UPDATE public.users"
  /\ \A s \in SpansOfKind("InsertQueryNode") :
       LET q == NodeOf(spans[s].call) IN
         spans[s].name =
           (IF q.into # Absent THEN "INSERT INTO " \o Rendered(q.into.v) ELSE "INSERT")

C11_Witness ==
  \E s \in SpansOfKind("UpdateQueryNode") :
    /\ NodeOf(spans[s].call).table = Some(AliasItem)
    /\ NodeOf(spans[s].call).joins = Some(<<TPosts>>)
    /\ spans[s].name = "UPDATE JOIN posts"

\* The node kinds that have a row of their own in the table of names.
TableKinds ==
  { "SelectQueryNode", "InsertQueryNode", "UpdateQueryNode", "DeleteQueryNode",
    "MergeQueryNode", "RefreshMaterializedViewNode",
    "CreateTableNode", "AlterTableNode", "DropTableNode",
    "CreateIndexNode", "DropIndexNode", "CreateSchemaNode", "DropSchemaNode",
    "CreateTypeNode", "DropTypeNode", "CreateViewNode", "DropViewNode" }

\* C12: every DDL node kind (create, alter and drop table; create and drop
\* index, schema, type and view) is named "DDL Operation" whatever its
\* sub-structure, merge is named "MERGE", and every node kind without a row in
\* the table is named "RAW SQL".
C12_KindOnlyNames ==
  \A c \in QueryCalls : \A s \in SpansOfCall(c) :
    LET k == NodeOf(c).kind IN
      /\ k \in { "CreateTableNode", "AlterTableNode", "DropTableNode",
                 "CreateIndexNode", "DropIndexNode", "CreateSchemaNode",
                 "DropSchemaNode", "CreateTypeNode", "DropTypeNode",
                 "CreateViewNode", "DropViewNode" } => spans[s].name = "DDL Operation"
      /\ k = "MergeQueryNode" => spans[s].name = "MERGE"
      /\ k \notin TableKinds => spans[s].name = "RAW SQL"

C12_Witness ==
  \E c \in QueryCalls :
    /\ NodeOf(c).kind = "DropViewNode"
    /\ NodeOf(c).table = Some(TUsers)
    /\ NodeOf(c).name = Str("idx")
    /\ \A s \in SpansOfCall(c) : spans[s].name = "DDL Operation"

\* The view name a refresh node carries, if any.
HasViewName(q) == q.name # Absent /\ q.name # Str("")
ViewName(q) == IF q.name.t = "string" THEN q.name.s ELSE q.name.identifier

\* C13: the name of a refresh-materialized-view node is "REFRESH MATERIALIZED
\* VIEW", then " <name>" if and only if a name is present, then " CONCURRENTLY"
\* if and only if the concurrent flag is set; the name mv_totals with the flag
\* set gives "REFRESH MATERIALIZED VIEW mv_totals CONCURRENTLY".
C13_RefreshName ==
  \A s \in SpansOfKind("RefreshMaterializedViewNode") :
    LET q == NodeOf(spans[s].call) IN
      spans[s].name =
        "REFRESH MATERIALIZED VIEW"
          \o (IF HasViewName(q) THEN " " \o ViewName(q) ELSE "")
          \o (IF q.concurrently = Bool(TRUE) THEN " CONCURRENTLY" ELSE "")

\* C14: the original operation of every intercepted call runs inside the
\* lifetime of the call's spans: when the original has been invoked every
\* wrapper of the call has started its span, and no span of the call is ended
\* while the original is still suspended.
C14_OriginalInsideSpan ==
  \A c \in 1..Len(calls) :
    Depth(c) >= 1 =>
      /\ calls[c].invoked # <<>> =>
           /\ Cardinality(SpansOfCall(c)) = Depth(c)
           /\ \A s \in SpansOfCall(c) : spans[s].log[1] = "start"
      /\ calls[c].orig = Pending =>
           \A s \in SpansOfCall(c) : spans[s].ended = 0 /\ spans[s].log = <<"start">>
      /\ \A s \in SpansOfCall(c) : spans[s].ended > 0 => calls[c].orig.kind \in {"return", "throw"}

C14_Witness ==
  \E c, d \in 1..Len(calls) :
    /\ Depth(c) >= 1 /\ calls[c].invoked # <<>> /\ calls[c].orig = Pending
    /\ \A s \in SpansOfCall(c) : spans[s].ended = 0
    /\ Depth(d) >= 1 /\ Done(d)
    /\ \A s \in SpansOfCall(d) : spans[s].ended = 1

\* C15: provided the original operation completes, every span that is started
\* is eventually ended and the caller of every intercepted call eventually
\* receives the outcome.
C15_EventuallyEnded ==
  /\ \A s \in 1..(MaxInstalls * MaxCalls) :
       (Len(spans) >= s) ~> (Len(spans) >= s /\ spans[s].ended = 1)
  /\ \A c \in 1..MaxCalls :
       (Len(calls) >= c) ~> (Len(calls) >= c /\ Done(c))

C15_Witness ==
  \E c \in 1..Len(calls) :
    /\ Depth(c) = 2
    /\ calls[c].orig = Throw(NullValue)
    /\ Done(c)
    /\ \A s \in SpansOfCall(c) : spans[s].ended = 1

\* C16: every span carries db.system.name = "postgres" from its start; an ended
\* span carries db.query.text exactly when it is a query span, and then the SQL
\* text of the compiled query; db.response.returned_rows exactly when it is a
\* query span whose call succeeded; db.response.status_code exactly when its
\* call failed with a thrown value carrying a string code. A TRANSACTION span
\* carries neither db.query.text nor db.response.returned_rows.
C16_AttributeSchema ==
  \A s \in 1..Len(spans) :
    LET c == spans[s].call
        isQuery == calls[c].op = "executeQuery"
        a == spans[s].attrs
    IN /\ a["db.system.name"] = Str("postgres")
       /\ (a["db.query.text"] # Absent) <=> isQuery
       /\ isQuery => a["db.query.text"] = Str(calls[c].arg.sql)
       /\ ~isQuery => spans[s].name = "TRANSACTION" /\ a["db.response.returned_rows"] = Absent
       /\ spans[s].ended > 0 =>
            /\ (a["db.response.returned_rows"] # Absent) <=> (isQuery /\ Succeeded(c))
            /\ (a["db.response.status_code"] # Absent) <=>
                 (Failed(c) /\ CarriesStringCode(calls[c].orig.val))

C16_Witness ==
  \E s \in 1..Len(spans) :
    LET c == spans[s].call IN
      /\ calls[c].op = "executeQuery"
      /\ calls[c].orig = Throw(CodeObject)
      /\ spans[s].ended = 1
      /\ spans[s].attrs["db.system.name"] = Str("postgres")
      /\ spans[s].attrs["db.query.text"] = Str(calls[c].arg.sql)
      /\ spans[s].attrs["db.response.returned_rows"] = Absent
      /\ spans[s].attrs["db.response.status_code"] = Str("E_TIMEOUT")

\* C17: with a single install, every intercepted call invokes the original
\* operation exactly once, with the receiver and the arguments of the caller
\* (the callback of a transaction; the compiled query and the query identifier
\* of a query); the invocations stay that one after the original has failed and
\* after the caller has received the failure.
C17_OriginalInvokedOnce ==
  \A c \in 1..Len(calls) :
    Depth(c) = 1 =>
      /\ calls[c].invoked = <<[this |-> calls[c].this, arg |-> calls[c].arg, id |-> calls[c].id]>>
      /\ calls[c].op = "execute" =>
           calls[c].invoked[1] = [this |-> "builder", arg |-> "cb", id |-> NoId]
      /\ calls[c].op = "executeQuery" =>
           /\ calls[c].invoked[1].this = "executor"
           /\ calls[c].invoked[1].id = "queryId"
           /\ calls[c].invoked[1].arg \in { Compiled(n) : n \in AllNodes }

C17_Witness ==
  \E c, d \in 1..Len(calls) :
    /\ Depth(c) = 1 /\ Depth(d) = 1
    /\ calls[c].op = "executeQuery" /\ calls[d].op = "execute"
    /\ Failed(c) /\ Done(c) /\ Failed(d) /\ Done(d)
    /\ Len(calls[c].invoked) = 1 /\ Len(calls[d].invoked) = 1
    /\ calls[c].invoked[1].this = "executor"
    /\ calls[d].invoked[1].arg = "cb"

\* C18: while the original operation of a call is suspended and after it has
\* returned, the spans of the call carry no error annotation: no setStatus and
\* no recordException was called on them, their status is unset and
\* db.response.status_code is absent. An ended span has status ERROR if and
\* only if the original operation of its call threw.
C18_NoErrorOnSuccess ==
  \A s \in 1..Len(spans) :
    LET c == spans[s].call IN
      /\ ~Failed(c) =>
           /\ Count(spans[s].log, "setStatus") = 0
           /\ Count(spans[s].log, "recordException") = 0
           /\ spans[s].status = UNSET
           /\ spans[s].exceptions = <<>>
           /\ spans[s].attrs["db.response.status_code"] = Absent
      /\ spans[s].ended > 0 => (spans[s].status.code = "ERROR" <=> Failed(c))

C18_Witness ==
  \E s \in 1..Len(spans) :
    LET c == spans[s].call IN
      /\ calls[c].op = "executeQuery"
      /\ Depth(c) = 2 /\ Done(c)
      /\ calls[c].out = Return([ref |-> "res0", rows |-> <<>>])
      /\ spans[s].ended = 1
      /\ spans[s].log = <<"start", "setAttribute", "end">>
      /\ spans[s].status = UNSET

\* C19: for a query call q made by the callback of a wrapped transaction call
\* t, the callback awaiting q before it returns or throws: every span of q is
\* started after every span of t and is ended by the time a span of t is ended;
\* when q failed and t failed with the value q threw, the ended spans of q and
\* of t have status ERROR with the same message, the same recorded exceptions
\* and the same db.response.status_code, and the caller of t observes that value.
C19_NestedQuerySpans ==
  \A q, t \in 1..Len(calls) :
    <<q, t>> \in parentOf =>
      /\ \A sq \in SpansOfCall(q), st \in SpansOfCall(t) :
           /\ st < sq
           /\ spans[st].ended > 0 => spans[sq].ended = 1
           /\ (Failed(q) /\ calls[t].orig = calls[q].orig /\ spans[st].ended > 0) =>
                /\ spans[sq].status.code = "ERROR"
                /\ spans[st].status = spans[sq].status
                /\ spans[st].exceptions = spans[sq].exceptions
                /\ spans[st].attrs["db.response.status_code"]
                     = spans[sq].attrs["db.response.status_code"]
      /\ (Failed(q) /\ calls[t].orig = calls[q].orig /\ Done(t)) => calls[t].out = calls[q].out

C19_Witness ==
  \E q, t \in 1..Len(calls) :
    /\ <<q, t>> \in parentOf
    /\ Depth(t) = 1 /\ Depth(q) = 1
    /\ calls[q].out = Throw(PgError) /\ calls[t].out = Throw(PgError)
    /\ Done(q) /\ Done(t)
    /\ \E sq \in SpansOfCall(q), st \in SpansOfCall(t) :
         /\ st < sq
         /\ spans[sq].ended = 1 /\ spans[st].ended = 1
         /\ spans[sq].status = [code |-> "ERROR", message |-> "error: duplicate key"]
         /\ spans[st].status = spans[sq].status
         /\ spans[st].exceptions = <<PgError>>

====
